---- MODULE Spec2Model ----
(***************************************************************************)
(* Model of lib/SIL/Passes/MemoryPromotion.cpp: the aggregate flattener    *)
(* getNumElements, the use collector collectAllocationUses, the per-element*)
(* ElementPromotion (escape seeding and doIt), optimizeAllocBox and the    *)
(* driver performSILMemoryPromotion.                                       *)
(***************************************************************************)
EXTENDS Integers, Sequences, FiniteSets, TLC

VARIABLES
  insts,        \* instruction table: id -> [op, block, target, opnums, sig]
  allocTy,      \* alloc_box id -> element type
  succs,        \* control-flow graph: block -> set of successor blocks
  body,         \* block -> sequence of instruction ids (the instruction list)
  uses,         \* alloc_box id -> use-list of its address: Seq([user, opnum])
  pc,           \* driver position: "scan" | "done"
  run,          \* which invocation of performSILMemoryPromotion is running
  curBB,        \* the driver's current block (for (auto &BB : Fn))
  I,            \* the driver's instruction iterator (index into body[curBB])
  Uses,         \* bucket array built by the last optimizeAllocBox
  eltInfo,      \* PerBlockInfo as left by each element's ElementPromotion
  lastABI,      \* the alloc_box the last optimizeAllocBox ran on (0: none)
  visits,       \* alloc_box id -> optimizeAllocBox calls in the current run
  startAllocs,  \* alloc_boxes in the module when the current run started
  after1,       \* the module (body, uses) as the first run left it
  diags,        \* diagnostics emitted so far: Seq([load, elt])
  rewritten,    \* loads replaced by a value and deleted so far
  fT,           \* flattener input type
  fN,           \* flattener result
  fpc           \* flattener position: "call" | "ret" | "off"

vars == <<insts, allocTy, succs, body, uses, pc, run, curBB, I, Uses,
          eltInfo, lastABI, visits, startAllocs, after1, diags, rewritten,
          fT, fN, fpc>>

progVars == <<insts, allocTy, succs, body, uses, pc, run, curBB, I, Uses,
              eltInfo, lastABI, visits, startAllocs, after1, diags, rewritten>>

----------------------------------------------------------------------------
(* Bounds *)

\* most components of a tuple / members of a struct
MaxFields == 2
\* basic blocks of the function
NumBlocks == 2
\* instructions that use an alloc_box address
MaxUsers == 2
\* alloc_box instructions in the driver runs
MaxAllocs == 2

----------------------------------------------------------------------------
(* Types: CanType as seen by getNumElements.  kind is the type class that  *)
(* getAs<> tests; addressOnly is SILType::isAddressOnly; elems are the     *)
(* tuple fields or the struct/class declaration's members.  A member's decl*)
(* is its Decl class (dyn_cast<VarDecl>); stored tells a stored property   *)
(* from a VarDecl with accessors.                                          *)

Member(d, s, t) == [decl |-> d, stored |-> s, type |-> t]

Field(t) == Member("TupleTypeElt", TRUE, t)

BuiltinTy == [kind |-> "builtin", addressOnly |-> FALSE, elems |-> <<>>]

TupleTy(fs) == [kind |-> "tuple", addressOnly |-> FALSE, elems |-> fs]

StructTy(ao, ms) == [kind |-> "struct", addressOnly |-> ao, elems |-> ms]

ClassTy(ms) == [kind |-> "class", addressOnly |-> FALSE, elems |-> ms]

RECURSIVE getNumElements(_)
RECURSIVE SumElements(_, _)

\* the loops of lines 70-71 and 81-83: the sum over elems[i..] of the
\* counts of the members the loop does not skip
SumElements(T, i) ==
  IF i > Len(T.elems) THEN 0
  ELSE (IF T.kind = "tuple" \/ T.elems[i].decl = "VarDecl"
          THEN getNumElements(T.elems[i].type) ELSE 0)
       + SumElements(T, i + 1)

\* faulty variant: the resilience test of line 77 is missing
getNumElementsNoResilient(T) ==
  IF T.kind = "tuple" THEN SumElements(T, 1)
  ELSE IF T.kind = "struct" THEN SumElements(T, 1)
  ELSE 1

getNumElements(T) ==
  IF T.kind = "tuple" THEN SumElements(T, 1)
  ELSE IF T.kind = "struct"
    THEN IF T.addressOnly THEN 1 ELSE SumElements(T, 1)
  ELSE 1

----------------------------------------------------------------------------
(* Flattener inputs *)

SeqsUpTo(S, n) == UNION {[1..k -> S] : k \in 0..n}

IntPair == TupleTy(<<Field(BuiltinTy), Field(BuiltinTy)>>)

\* the types a component of an input type may have
NestedTypes ==
  { BuiltinTy,
    TupleTy(<<>>),
    IntPair,
    StructTy(FALSE, <<>>),
    StructTy(TRUE, <<Member("VarDecl", TRUE, BuiltinTy), Member("VarDecl", TRUE, BuiltinTy)>>),
    StructTy(FALSE, <<Member("VarDecl", TRUE, BuiltinTy), Member("VarDecl", FALSE, BuiltinTy)>>),
    ClassTy(<<Member("VarDecl", TRUE, BuiltinTy), Member("VarDecl", TRUE, BuiltinTy)>>) }

Members ==
  {Member("VarDecl", s, t) : s \in BOOLEAN, t \in NestedTypes}
    \cup {Member("FuncDecl", FALSE, BuiltinTy)}

FlattenInputs ==
  NestedTypes
    \cup {TupleTy(fs) : fs \in SeqsUpTo({Field(t) : t \in NestedTypes}, MaxFields)}
    \cup {StructTy(ao, ms) : ao \in BOOLEAN, ms \in SeqsUpTo(Members, MaxFields)}

----------------------------------------------------------------------------
(* Instructions.  op is the instruction class; block is getParent();       *)
(* target is the alloc_box whose address the instruction uses and opnums   *)
(* the operand numbers at which it uses it; sig is the callee's            *)
(* SILFunctionTypeInfo for an apply / partial_apply.                       *)

Blocks == 1..NumBlocks

Sig(ir, br) == [hasIndirectReturn |-> ir, byrefArgs |-> br]

NoSig == Sig(FALSE, {})

Inst(o, b, t, ns, sg) == [op |-> o, block |-> b, target |-> t, opnums |-> ns, sig |-> sg]

AllocBox(b) == Inst("alloc_box", b, 0, {}, NoSig)

AllocIds == {i \in DOMAIN insts : insts[i].op = "alloc_box"}

UserIds == DOMAIN insts \ AllocIds

\* the instructions still in the function
InFunction == UNION {{body[b][k] : k \in 1..Len(body[b])} : b \in Blocks}

Pos(s, x) == CHOOSE k \in 1..Len(s) : s[k] = x

Without(s, X) == LET Keep(x) == x \notin X IN SelectSeq(s, Keep)

----------------------------------------------------------------------------
(* Use collection *)

isByRefOrIndirectReturn(Apply, ArgumentNumber) ==
  IF ArgumentNumber = 0 /\ insts[Apply].sig.hasIndirectReturn THEN TRUE
  ELSE ArgumentNumber \in insts[Apply].sig.byrefArgs

\* faulty variant: only the first element of an aggregate use is recorded
addElementUsesFirstOnly(U, BaseElt, UseTy, User, Kind) ==
  [k \in DOMAIN U \cup {BaseElt} |->
     (IF k \in DOMAIN U THEN U[k] ELSE <<>>)
       \o (IF k = BaseElt THEN <<[inst |-> User, kind |-> Kind]>> ELSE <<>>)]

\* Uses[BaseElt+i].push_back({User, Kind}) for i in [0, e); the bucket array
\* is a function from 0-based element indices to entry sequences
addElementUses(U, BaseElt, UseTy, User, Kind) ==
  LET e == getNumElements(UseTy)
      touched == {BaseElt + i : i \in 0..(e - 1)}
  IN [k \in DOMAIN U \cup touched |->
        (IF k \in DOMAIN U THEN U[k] ELSE <<>>)
          \o (IF k \in touched THEN <<[inst |-> User, kind |-> Kind]>> ELSE <<>>)]

\* faulty variant: every use by a store is a Store, whichever operand it is
collectUseAnyStore(U, UI, BaseElt, PointeeType) ==
  LET User == UI.user
      op == insts[User].op
  IN IF op \in {"dealloc_stack", "retain", "release", "dealloc_ref"} THEN U
     ELSE IF op = "load"
       THEN addElementUses(U, BaseElt, PointeeType, User, "Load")
     ELSE IF op = "store"
       THEN addElementUses(U, BaseElt, PointeeType, User, "Store")
     ELSE IF op \in {"apply", "partial_apply"}
             /\ isByRefOrIndirectReturn(User, UI.opnum - 1)
       THEN addElementUses(U, BaseElt, PointeeType, User, "ByrefUse")
     ELSE addElementUses(U, BaseElt, PointeeType, User, "Escape")

\* the body of the loop over Pointer.getUses(), for the use UI
collectUse(U, UI, BaseElt, PointeeType) ==
  LET User == UI.user
      op == insts[User].op
  IN IF op \in {"dealloc_stack", "retain", "release", "dealloc_ref"} THEN U
     ELSE IF op = "load"
       THEN addElementUses(U, BaseElt, PointeeType, User, "Load")
     ELSE IF op = "store" /\ UI.opnum = 1
       THEN addElementUses(U, BaseElt, PointeeType, User, "Store")
     ELSE IF op \in {"apply", "partial_apply"}
             /\ isByRefOrIndirectReturn(User, UI.opnum - 1)
       THEN addElementUses(U, BaseElt, PointeeType, User, "ByrefUse")
     ELSE addElementUses(U, BaseElt, PointeeType, User, "Escape")

RECURSIVE collectFrom(_, _, _, _, _)
collectFrom(PointerUses, k, U, BaseElt, PointeeType) ==
  IF k > Len(PointerUses) THEN U
  ELSE collectFrom(PointerUses, k + 1,
                   collectUse(U, PointerUses[k], BaseElt, PointeeType),
                   BaseElt, PointeeType)

collectAllocationUses(PointerUses, U, BaseElt, PointeeType) ==
  collectFrom(PointerUses, 1, U, BaseElt, PointeeType)

----------------------------------------------------------------------------
(* Element promotion *)

\* the constructor: PerBlockInfo is cleared, then every block holding an
\* Escape use of the element gets EscapeKind::Yes
ElementPromotion(EltUses) ==
  LET Esc == {k \in 1..Len(EltUses) : EltUses[k].kind = "Escape"}
  IN [HasAnyEscape |-> Esc # {},
      PerBlockInfo |->
        [b \in Blocks |->
           IF \E k \in Esc : insts[EltUses[k].inst].block = b
             THEN "Yes" ELSE "Unknown"]]

\* faulty variant: a doIt that promotes every Load outside the blocks marked Yes
doItPromoteUnmarked(EltUses, EP) ==
  [promoted |-> {EltUses[k].inst : k \in
                   {j \in 1..Len(EltUses) :
                      /\ EltUses[j].kind = "Load"
                      /\ EP.PerBlockInfo[insts[EltUses[j].inst].block] # "Yes"}},
   diagnosed |-> {}]

\* doIt: every case of the switch is empty, so no Load is rewritten and no
\* diagnostic is emitted
doIt(EltUses, EP) == [promoted |-> {}, diagnosed |-> {}]

optimizeAllocBox(ABI) ==
  LET N == getNumElements(allocTy[ABI])
      U == collectAllocationUses(uses[ABI], [k \in 0..(N - 1) |-> <<>>], 0,
                                 allocTy[ABI])
      EP == [k \in DOMAIN U |-> ElementPromotion(U[k])]
      did == [k \in DOMAIN U |-> doIt(U[k], EP[k])]
  IN [Uses |-> U,
      info |-> [k \in DOMAIN U |-> EP[k].PerBlockInfo],
      promoted |-> UNION {did[k].promoted : k \in DOMAIN U},
      diagnosed |-> {x \in UserIds \X DOMAIN U : x[1] \in did[x[2]].diagnosed}]

----------------------------------------------------------------------------
(* Driver *)

\* faulty variant: the allocation is erased whatever its use-list holds
use_emptyUnchecked(UseList) == TRUE

use_empty(UseList) == UseList = <<>>

\* faulty variant: the iterator is advanced after the erase, past the next instruction
IteratorAfterErase(pos, erased) == pos + 1

\* ++I, then the erase of ABI: the iterator is on the instruction that
\* followed ABI, which takes ABI's index when ABI leaves the list
IteratorAfter(pos, erased) == IF erased THEN pos ELSE pos + 1

Module == [body |-> body, uses |-> uses]

AtInst == pc = "scan" /\ I <= Len(body[curBB])

SkipInst ==
  /\ AtInst
  /\ insts[body[curBB][I]].op # "alloc_box"
  /\ I' = I + 1
  /\ UNCHANGED <<insts, allocTy, succs, body, uses, pc, run, curBB, Uses,
                 eltInfo, lastABI, visits, startAllocs, after1, diags,
                 rewritten, fT, fN, fpc>>

VisitAlloc ==
  /\ AtInst
  /\ insts[body[curBB][I]].op = "alloc_box"
  /\ LET ABI == body[curBB][I]
         r == optimizeAllocBox(ABI)
         uses1 == [a \in DOMAIN uses |->
                     LET Keep(u) == u.user \notin r.promoted
                     IN SelectSeq(uses[a], Keep)]
         body1 == [b \in Blocks |-> Without(body[b], r.promoted)]
         erase == use_empty(uses1[ABI])
     IN /\ Uses' = r.Uses
        /\ eltInfo' = r.info
        /\ lastABI' = ABI
        /\ visits' = [visits EXCEPT ![ABI] = @ + 1]
        /\ rewritten' = rewritten \cup r.promoted
        /\ diags' = [x \in DOMAIN diags \cup r.diagnosed |->
                       (IF x \in DOMAIN diags THEN diags[x] ELSE 0)
                         + (IF x \in r.diagnosed THEN 1 ELSE 0)]
        /\ uses' = uses1
        /\ body' = IF erase THEN [b \in Blocks |-> Without(body1[b], {ABI})]
                   ELSE body1
        /\ I' = IteratorAfter(Pos(body1[curBB], ABI), erase)
  /\ UNCHANGED <<insts, allocTy, succs, pc, run, curBB, startAllocs, after1,
                 fT, fN, fpc>>

NextBlock ==
  /\ pc = "scan"
  /\ I > Len(body[curBB])
  /\ curBB < NumBlocks
  /\ curBB' = curBB + 1
  /\ I' = 1
  /\ UNCHANGED <<insts, allocTy, succs, body, uses, pc, run, Uses, eltInfo,
                 lastABI, visits, startAllocs, after1, diags, rewritten,
                 fT, fN, fpc>>

Finish ==
  /\ pc = "scan"
  /\ I > Len(body[curBB])
  /\ curBB = NumBlocks
  /\ pc' = "done"
  /\ after1' = IF run = 1 THEN Module ELSE after1
  /\ UNCHANGED <<insts, allocTy, succs, body, uses, run, curBB, I, Uses,
                 eltInfo, lastABI, visits, startAllocs, diags, rewritten,
                 fT, fN, fpc>>

\* the caller runs performSILMemoryPromotion again on the same module
Rerun ==
  /\ pc = "done"
  /\ run = 1
  /\ pc' = "scan"
  /\ run' = 2
  /\ curBB' = 1
  /\ I' = 1
  /\ visits' = [a \in DOMAIN visits |-> 0]
  /\ startAllocs' = AllocIds \cap InFunction
  /\ UNCHANGED <<insts, allocTy, succs, body, uses, Uses, eltInfo, lastABI,
                 after1, diags, rewritten, fT, fN, fpc>>

performSILMemoryPromotion == SkipInst \/ VisitAlloc \/ NextBlock \/ Finish

----------------------------------------------------------------------------
(* Flattener run *)

CallGetNumElements ==
  /\ fpc = "call"
  /\ fN' = getNumElements(fT)
  /\ fpc' = "ret"
  /\ UNCHANGED <<progVars, fT>>

----------------------------------------------------------------------------
(* Inputs: the module the pass is run on *)

OpSeq(S) == LET In(k) == k \in S IN SelectSeq(<<0, 1, 2>>, In)

\* the use-list of alloc_box a's address: one use per operand that holds it
RECURSIVE UseListFrom(_, _, _)
UseListFrom(tbl, a, i) ==
  IF i > Len(tbl) THEN <<>>
  ELSE (IF tbl[i].target = a
          THEN [k \in 1..Len(OpSeq(tbl[i].opnums)) |->
                  [user |-> i, opnum |-> OpSeq(tbl[i].opnums)[k]]]
          ELSE <<>>)
       \o UseListFrom(tbl, a, i + 1)

BodyOf(tbl) ==
  [b \in Blocks |->
     LET In(i) == tbl[i].block = b
     IN SelectSeq([i \in 1..Len(tbl) |-> i], In)]

\* a straight-line function: each block branches to the next
Chain == [b \in Blocks |-> IF b < NumBlocks THEN {b + 1} ELSE {}]

\* a terminator has at most two successors; the entry block has no predecessor
CFGs ==
  {g \in [Blocks -> SUBSET (Blocks \ {1})] :
     \A b \in Blocks : Cardinality(g[b]) <= 2}

InBlockOrder(s) == \A i, j \in 1..Len(s) : i < j => s[i].block <= s[j].block

Program(tbl, tys, cfg) ==
  /\ insts = tbl
  /\ allocTy = tys
  /\ succs = cfg
  /\ body = BodyOf(tbl)
  /\ uses = [a \in DOMAIN tys |-> UseListFrom(tbl, a, 1)]
  /\ pc = "scan"
  /\ run = 1
  /\ curBB = 1
  /\ I = 1
  /\ Uses = [k \in {} |-> <<>>]
  /\ eltInfo = [k \in {} |-> <<>>]
  /\ lastABI = 0
  /\ visits = [a \in DOMAIN tys |-> 0]
  /\ startAllocs = DOMAIN tys
  /\ after1 = [body |-> BodyOf(tbl),
               uses |-> [a \in DOMAIN tys |-> UseListFrom(tbl, a, 1)]]
  /\ diags = [x \in {} |-> 0]
  /\ rewritten = {}

\* getNumElements is not being run on its own
FlattenIdle == fT = BuiltinTy /\ fN = 0 /\ fpc = "off"

\* users of alloc_box 1 in block b, one of each use kind
PromotionUsers ==
  UNION {{ Inst("load", b, 1, {0}, NoSig),
           Inst("store", b, 1, {1}, NoSig),
           Inst("apply", b, 1, {1}, NoSig),
           Inst("apply", b, 1, {1}, Sig(FALSE, {0})) } : b \in Blocks}

\* one alloc_box in the entry block, its users anywhere in the function
Init ==
  \E ty \in {BuiltinTy, IntPair}, cfg \in CFGs,
     us \in {s \in SeqsUpTo(PromotionUsers, MaxUsers) : InBlockOrder(s)} :
    Program(<<AllocBox(1)>> \o us, <<ty>>, cfg) /\ FlattenIdle

Sigs == {Sig(ir, br) : ir \in BOOLEAN, br \in {{}, {0}, {1}}}

\* every instruction class the collector tells apart, in the entry block
CollectUsers ==
  { Inst(o, 1, 1, {0}, NoSig) :
      o \in {"load", "dealloc_stack", "retain", "release", "dealloc_ref",
             "struct_element_addr"} }
    \cup {Inst("store", 1, 1, {n}, NoSig) : n \in {0, 1}}
    \cup {Inst("apply", 1, 1, ns, sg) : ns \in {{1}, {2}, {1, 2}}, sg \in Sigs}
    \cup {Inst("partial_apply", 1, 1, {1}, sg) : sg \in {NoSig, Sig(FALSE, {0})}}

InitCollect ==
  \E ty \in {BuiltinTy, IntPair, TupleTy(<<>>)},
     us \in SeqsUpTo(CollectUsers, MaxUsers) :
    Program(<<AllocBox(1)>> \o us, <<ty>>, Chain) /\ FlattenIdle

\* MaxAllocs alloc_boxes, each user in the block of the alloc_box it uses
InitDriver ==
  \E as \in {s \in [1..MaxAllocs -> {AllocBox(b) : b \in Blocks}] : InBlockOrder(s)} :
    \E us \in SeqsUpTo(
         UNION {{ Inst("load", as[a].block, a, {0}, NoSig),
                  Inst("store", as[a].block, a, {1}, NoSig),
                  Inst("release", as[a].block, a, {0}, NoSig) } : a \in 1..MaxAllocs},
         MaxUsers) :
      Program(as \o us, [a \in 1..MaxAllocs |-> BuiltinTy], Chain) /\ FlattenIdle

InitFlatten ==
  /\ Program(<<AllocBox(1)>>, <<BuiltinTy>>, Chain)
  /\ fT \in FlattenInputs
  /\ fN = 0
  /\ fpc = "call"

Next == performSILMemoryPromotion

Spec == Init /\ [][Next]_vars

SpecCollect == InitCollect /\ [][Next]_vars

NextDriver == performSILMemoryPromotion \/ Rerun

SpecDriver == InitDriver /\ [][NextDriver]_vars

NextFlatten == CallGetNumElements

SpecFlatten == InitFlatten /\ [][NextFlatten]_vars

----------------------------------------------------------------------------
(* Vocabulary of the properties *)

\* the blocks reachable from a block of S along successor edges, S included
RECURSIVE Reach(_)
Reach(S) ==
  LET T == S \cup UNION {succs[b] : b \in S}
  IN IF T = S THEN S ELSE Reach(T)

NumElts(a) == getNumElements(allocTy[a])

Elements(a) == 0..(NumElts(a) - 1)

IsIgnored(i) == insts[i].op \in {"dealloc_stack", "retain", "release", "dealloc_ref"}

\* the users of alloc_box a that element e's bucket holds with the given kind
UsersOfKind(a, e, kind) ==
  LET U == collectAllocationUses(uses[a], [k \in Elements(a) |-> <<>>], 0, allocTy[a])
  IN IF e \in DOMAIN U
       THEN {U[e][j].inst : j \in {i \in 1..Len(U[e]) : U[e][i].kind = kind}}
       ELSE {}

EscapeBlocks(a, e) == {insts[i].block : i \in UsersOfKind(a, e, "Escape")}

\* the load instructions of the input program on alloc_box a
LoadsOf(a) == {i \in UserIds : insts[i].op = "load" /\ insts[i].target = a}

IsMemoryRead(L) ==
  /\ L \in InFunction
  /\ L \notin rewritten
  /\ \E k \in 1..Len(uses[insts[L].target]) : uses[insts[L].target][k].user = L

\* Reaching definitions of element e of a: store ids, and 0 for "no store".
\* Instructions of a block are in id order.
StoresIn(a, e, b) == {i \in UsersOfKind(a, e, "Store") : insts[i].block = b}

Max(S) == CHOOSE x \in S : \A y \in S : y <= x

DefsOut(a, e, b, in) ==
  IF StoresIn(a, e, b) = {} THEN in ELSE {Max(StoresIn(a, e, b))}

RECURSIVE DefsIn(_, _, _)
DefsIn(a, e, in) ==
  LET nxt == [b \in Blocks |->
                (IF b = 1 THEN {0} ELSE {})
                  \cup UNION {DefsOut(a, e, p, in[p]) :
                                p \in {q \in Reach({1}) : b \in succs[q]}}]
  IN IF nxt = in THEN in ELSE DefsIn(a, e, nxt)

ReachingDefs(a, e, L) ==
  LET b == insts[L].block
      before == {i \in StoresIn(a, e, b) : i < L}
  IN IF before # {} THEN {Max(before)}
     ELSE DefsIn(a, e, [c \in Blocks |-> {}])[b]

RECURSIVE SumLens(_, _)
SumLens(U, S) ==
  IF S = {} THEN 0
  ELSE LET k == CHOOSE x \in S : TRUE
       IN Len(U[k]) + SumLens(U, S \ {k})

TotalEntries == SumLens(Uses, DOMAIN Uses)

\* the uses of the last processed address by instructions that are not ignored
CountedUses ==
  LET Counted(u) == ~IsIgnored(u.user)
  IN SelectSeq(uses[lastABI], Counted)

----------------------------------------------------------------------------
(* Properties *)

\* C1: after the pass, no Load of an element that lies in a block reachable
\* (the block itself included) from a block holding an Escape use of that
\* element has been rewritten or deleted: it is still a memory read of the
\* allocation's address.
C1_NoPromotionAcrossTaint ==
  pc = "done" =>
    \A a \in AllocIds : \A e \in Elements(a) : \A L \in LoadsOf(a) :
      insts[L].block \in Reach(EscapeBlocks(a, e)) => IsMemoryRead(L)

C1_Witness ==
  /\ pc = "done"
  /\ \E L \in LoadsOf(1) :
       /\ insts[L].block = 2
       /\ EscapeBlocks(1, 0) = {1}
       /\ 2 \in succs[1]
       /\ IsMemoryRead(L)

\* C2 (as claimed): an element with no Escape and no ByRefUse whose every
\* Load is reached by exactly one Store on every path from entry has no Load
\* use left on the allocation once the pass has processed it.
C2_PromotionSoundness ==
  pc = "done" =>
    \A a \in AllocIds : \A e \in Elements(a) :
      ( /\ UsersOfKind(a, e, "Escape") = {}
        /\ UsersOfKind(a, e, "ByrefUse") = {}
        /\ \A L \in LoadsOf(a) :
             /\ Cardinality(ReachingDefs(a, e, L)) = 1
             /\ 0 \notin ReachingDefs(a, e, L) )
      => \A k \in 1..Len(uses[a]) : insts[uses[a][k].user].op # "load"

\* C3 (as claimed): a Load reachable from entry along a path with no
\* preceding Store to the element gets exactly one Definite-Initialization
\* diagnostic and is neither deleted nor promoted.
C3_InitializationDetection ==
  pc = "done" =>
    \A a \in AllocIds : \A e \in Elements(a) : \A L \in LoadsOf(a) :
      0 \in ReachingDefs(a, e, L) =>
        /\ <<L, e>> \in DOMAIN diags
        /\ diags[<<L, e>>] = 1
        /\ IsMemoryRead(L)

\* C4: the pass is idempotent: all through a second run the module is the
\* one the first run left (no rewrite, no erase), and so it is at its end.
C4_Idempotent == run = 2 => Module = after1

C4_Witness ==
  /\ run = 2
  /\ pc = "done"
  /\ \E a \in AllocIds : a \notin InFunction
  /\ \E a \in AllocIds : a \in InFunction /\ uses[a] # <<>>

\* C5 (as claimed): getNumElements returns at least 1 for every type.
C5_AtLeastOne == fpc = "ret" => fN >= 1

\* a tuple or inspectable struct none of whose components (VarDecl members)
\* holds a leaf
RECURSIVE NoLeaf(_)
NoLeaf(T) ==
  /\ T.kind = "tuple" \/ (T.kind = "struct" /\ ~T.addressOnly)
  /\ \A i \in 1..Len(T.elems) :
       (T.kind = "tuple" \/ T.elems[i].decl = "VarDecl") => NoLeaf(T.elems[i].type)

\* C5 (amended): getNumElements returns 0 exactly for the tuples and
\* inspectable structs that hold no leaf (the empty tuple, a struct without
\* VarDecl members, aggregates of those), and at least 1 for every other type.
C5_ZeroOnlyWithoutLeaf ==
  fpc = "ret" => /\ fN >= 0
                 /\ fN = 0 <=> NoLeaf(fT)

C5_Witness ==
  /\ fpc = "ret"
  /\ fT.kind = "tuple"
  /\ Len(fT.elems) = 0
  /\ fN = 0

\* the flattening rule as the claim states it: stored fields only
RECURSIVE ReferenceCount(_)
RECURSIVE ReferenceSum(_, _)
ReferenceSum(T, i) ==
  IF i > Len(T.elems) THEN 0
  ELSE (IF T.elems[i].stored THEN ReferenceCount(T.elems[i].type) ELSE 0)
       + ReferenceSum(T, i + 1)

ReferenceCount(T) ==
  IF T.kind = "tuple" THEN ReferenceSum(T, 1)
  ELSE IF T.kind = "struct" /\ ~T.addressOnly THEN ReferenceSum(T, 1)
  ELSE 1

\* C6 (as claimed): getNumElements equals the reference flattening rule: the
\* sum over a tuple's components, the sum over an inspectable record's stored
\* fields only, 1 for an opaque record and for any other type.
C6_ReferenceRule == fpc = "ret" => fN = ReferenceCount(fT)

\* C7 (as claimed): the entries over all buckets number the element span
\* times the non-ignored instructions touching the address, each instruction
\* counted once; ignored instructions have no entry; no bucket lies outside
\* [0, N).
C7_OncePerInstruction ==
  lastABI # 0 =>
    /\ TotalEntries
         = NumElts(lastABI)
             * Cardinality({CountedUses[k].user : k \in 1..Len(CountedUses)})
    /\ \A k \in DOMAIN Uses : \A j \in 1..Len(Uses[k]) : ~IsIgnored(Uses[k][j].inst)
    /\ DOMAIN Uses \subseteq Elements(lastABI)

\* C7 (amended): the entries over all buckets number the element span times
\* the uses (operand occurrences) of the address by non-ignored instructions,
\* each use counted once in each bucket; ignored instructions have no entry;
\* the buckets are exactly those of [0, N).
C7_OncePerUse ==
  lastABI # 0 =>
    /\ TotalEntries = NumElts(lastABI) * Len(CountedUses)
    /\ \A k \in DOMAIN Uses : Len(Uses[k]) = Len(CountedUses)
    /\ \A k \in DOMAIN Uses : \A j \in 1..Len(Uses[k]) : ~IsIgnored(Uses[k][j].inst)
    /\ DOMAIN Uses = Elements(lastABI)

C7_Witness ==
  /\ lastABI # 0
  /\ NumElts(lastABI) = 2
  /\ \E i \in UserIds : insts[i].op = "apply" /\ insts[i].opnums = {1, 2}
  /\ \E i \in UserIds : IsIgnored(i)
  /\ TotalEntries = 4

\* C8: an alloc_box is erased only with an empty use-list (no erased
\* alloc_box has a user left), an alloc_box found with an empty use-list is
\* erased by the visit that finds it, and in each run every alloc_box of the
\* module is visited exactly once.
C8_ErasedOnlyWhenUnused ==
  /\ \A a \in AllocIds : a \notin InFunction => uses[a] = <<>>
  /\ \A i \in UserIds \cap InFunction : insts[i].target \in InFunction
  /\ \A a \in AllocIds : visits[a] = 1 /\ uses[a] = <<>> => a \notin InFunction
  /\ \A a \in AllocIds : visits[a] <= 1
  /\ pc = "done" =>
       \A a \in AllocIds : visits[a] = IF a \in startAllocs THEN 1 ELSE 0

C8_Witness ==
  /\ pc = "done"
  /\ run = 1
  /\ \E a \in AllocIds : a \notin InFunction /\ visits[a] = 1
  /\ \E a \in AllocIds : a \in InFunction /\ uses[a] # <<>> /\ visits[a] = 1

\* C9 (as claimed): when an element's escape analysis is complete, the
\* blocks marked EscapeKind::Yes are the blocks holding an Escape use of
\* that element together with every block reachable from them, and no other.
C9_TaintClosedUnderReachability ==
  lastABI # 0 =>
    \A e \in Elements(lastABI) :
      /\ e \in DOMAIN eltInfo
      /\ \A b \in Blocks :
           eltInfo[e][b] = "Yes" <=> b \in Reach(EscapeBlocks(lastABI, e))

\* is the use matched by none of the collector's rules
Unmatched(u) ==
  /\ ~IsIgnored(u.user)
  /\ insts[u.user].op # "load"
  /\ ~(insts[u.user].op = "store" /\ u.opnum = 1)
  /\ ~( /\ insts[u.user].op \in {"apply", "partial_apply"}
        /\ \/ u.opnum = 1 /\ insts[u.user].sig.hasIndirectReturn
           \/ (u.opnum - 1) \in insts[u.user].sig.byrefArgs )

\* C10: every spanned element's bucket holds one entry per non-ignored use;
\* an entry has kind Store only for a store instruction whose destination
\* operand is the address; a store of the address itself is an Escape entry
\* in every spanned bucket, and so is every use no rule matches.
C10_StoreOnlyToDestination ==
  lastABI # 0 =>
    \A k \in Elements(lastABI) :
      /\ k \in DOMAIN Uses
      /\ Len(Uses[k]) = Len(CountedUses)
      /\ \A j \in 1..Len(Uses[k]) :
           LET u == CountedUses[j]
               x == Uses[k][j]
           IN /\ x.inst = u.user
              /\ x.kind = "Store" => insts[u.user].op = "store" /\ u.opnum = 1
              /\ insts[u.user].op = "store" /\ u.opnum = 0 => x.kind = "Escape"
              /\ Unmatched(u) => x.kind = "Escape"

C10_Witness ==
  /\ lastABI # 0
  /\ NumElts(lastABI) = 2
  /\ Len(uses[lastABI]) = 2
  /\ insts[uses[lastABI][1].user].op = "store"
  /\ uses[lastABI][1].opnum = 0
  /\ insts[uses[lastABI][2].user].op = "struct_element_addr"
  /\ \A k \in {0, 1} : Uses[k][1].kind = "Escape" /\ Uses[k][2].kind = "Escape"

====
